---- MODULE Spec2Model ----
(***************************************************************************)
(* Model of src/src/extension.ts: the "Self-Healing Assistant" editor      *)
(* command.  Each invocation of fixCode is one flow; the flows share the   *)
(* active document, the workspace configuration and the two untitled       *)
(* documents that showDiffDocument writes to.                              *)
(*                                                                         *)
(* Text is a sequence of lines; a position is a line boundary (line n,     *)
(* character 0), so a range is a pair <<s, e>> of boundaries and           *)
(* Range(0, 0, lineCount, 0) is <<0, lineCount>>.  The line " " is a line  *)
(* holding only whitespace.                                                *)
(***************************************************************************)
EXTENDS Integers, Sequences, FiniteSets, TLC

MaxInv == 2        \* number of fixCode invocations in a session
MaxLines == 2      \* lines of the document when the session starts
MaxUserEdits == 1  \* edits the user makes by hand during the session

Inv == 1..MaxInv

SourceLines == {"x", " "}

Min(a, b) == IF a < b THEN a ELSE b

\* extension.ts:262-267
getSupportedLanguages ==
    {"javascript", "typescript", "python", "java", "cpp", "c",
     "go", "php", "csharp", "ruby", "swift", "kotlin"}

\* extension.ts:258-260
isSupportedLanguage(languageId) == languageId \in getSupportedLanguages

\* language identifiers a document of the session may have
DocLanguages == {"javascript", "plaintext"}

\* String.prototype.trim on a text: whitespace is dropped at both ends
RECURSIVE TrimStart(_)
TrimStart(t) ==
    IF t = <<>> THEN <<>>
    ELSE IF Head(t) = " " THEN TrimStart(Tail(t)) ELSE t

RECURSIVE TrimEnd(_)
TrimEnd(t) ==
    IF t = <<>> THEN <<>>
    ELSE IF t[Len(t)] = " " THEN TrimEnd(SubSeq(t, 1, Len(t) - 1)) ELSE t

\* a handler that tests the text without trimming it
NoTrim(t) == t

Trim(t) == TrimEnd(TrimStart(t))

\* document.getText(range) / document.getText()
getText(d, range) == SubSeq(d, range[1] + 1, range[2])

\* the host validates a range against the document it is applied to
validateRange(d, range) == <<Min(range[1], Len(d)), Min(range[2], Len(d))>>

\* editBuilder.replace(range, text) once the host applies it
ReplaceRange(d, range, text) ==
    LET r == validateRange(d, range)
    IN  SubSeq(d, 1, r[1]) \o text \o SubSeq(d, r[2] + 1, Len(d))

\* WorkspaceEdit.insert(uri, Position(0, 0), text)
InsertAtStart(d, text) == text \o d

\* settings of the selfHealing section
Urls == {"", "http://n8n/webhook"}
Timeouts == {30000}
Configs == [n8nWebhookUrl : Urls, requestTimeout : Timeouts, showDiffPreview : BOOLEAN]

\* bodies the webhook may answer with (fixedCode <<>> is a missing or empty field)
FixResponses ==
    { [fixedCode |-> <<>>, explanation |-> "nothing to fix"],
      [fixedCode |-> <<"f">>, explanation |-> "fixed typo"] }

TransportErrors == {"ECONNREFUSED", "404", "ECONNABORTED", "ERR_NETWORK"}

NoResult == [fixedCode |-> <<>>, explanation |-> ""]

\* the user-visible messages of the source
MsgNoEditor == <<"No active editor found. Please open a file first.">>
MsgUnsupported(languageId) ==
    <<"Language \"", languageId, "\" is not supported yet. Supported: ", "javascript, typescript, python, java, cpp, c, go, php, csharp, ruby, swift, kotlin">>
MsgNoSelection == <<"No code selected. Select code first or use \"Fix Entire File\".">>
MsgEmpty == <<"Selected code is empty.">>
MsgNoUrl == <<"n8n webhook URL not configured. Please check your settings.">>
MsgNoFixedCode == <<"No fixed code received from AI">>
MsgRefused(webhookUrl) == <<"Cannot connect to n8n at ", webhookUrl, ". Is n8n running?">>
MsgNotFound == <<"Webhook endpoint not found. Check your n8n workflow.">>
MsgTimeout(timeout) == <<"Request timed out after ", ToString(timeout), "ms. Try increasing the timeout.">>
MsgOther(code) == <<code>>
MsgCancelled == <<"Code fix cancelled.">>

Note(level, text) == [level |-> level, text |-> text]

\* extension.ts:269-273
showSuccessMessage(explanation) ==
    Note("info", <<"Code fixed successfully! ", explanation>>)

\* a handler that shows its fallback text for every error
handleErrorGeneric(message) ==
    Note("error", <<"Self-Healing Assistant: ", "An error occurred while fixing code.">>)

\* extension.ts:275-285
handleError(message) ==
    Note("error", <<"Self-Healing Assistant: ">> \o message)

\* extension.ts:150-161: the message of the error sendCodeToAI rethrows
mapTransportError(code, webhookUrl, timeout) ==
    IF code = "ECONNREFUSED" THEN MsgRefused(webhookUrl)
    ELSE IF code = "404" THEN MsgNotFound
    ELSE IF code = "ECONNABORTED" THEN MsgTimeout(timeout)
    ELSE MsgOther(code)

VARIABLES
    document,       \* text of the active document
    languageId,     \* its language identifier
    config,         \* workspace configuration, section selfHealing
    untitledOriginal,   \* text of the document untitled:Original Code
    untitledFixed,      \* text of the document untitled:Fixed Code
    flow,           \* per invocation: the locals of fixCode and what it has shown
    userEdits       \* number of edits the user has made by hand

vars == <<document, languageId, config, untitledOriginal, untitledFixed, flow, userEdits>>

IdleFlow ==
    [ pc |-> "Idle",
      selectionOnly |-> FALSE,
      hasEditor |-> FALSE,
      language |-> "",
      hasSelection |-> FALSE,
      codeToFix |-> <<>>,
      rangeToReplace |-> <<0, 0>>,
      invokedShowDiff |-> TRUE,
      webhookUrl |-> "",
      timeout |-> 30000,
      posts |-> 0,
      received |-> "nothing",
      errorCode |-> "",
      result |-> NoResult,
      showDiff |-> "unread",
      action |-> "none",
      applyAction |-> "none",
      prompts |-> 0,
      notes |-> <<>>,
      editRequests |-> 0,
      edits |-> 0,
      replaced |-> <<>>,
      diffLeft |-> <<>>,
      diffRight |-> <<>>,
      diffShown |-> FALSE ]

AllTexts(n) == UNION { [1..k -> SourceLines] : k \in 0..n }

Init ==
    /\ document \in AllTexts(MaxLines)
    /\ languageId \in DocLanguages
    /\ config \in Configs
    /\ untitledOriginal = <<>>
    /\ untitledFixed = <<>>
    /\ flow = [i \in Inv |-> IdleFlow]
    /\ userEdits = 0

\* extension.ts:115-117: the catch of fixCode
Fail(f, message) ==
    [f EXCEPT !.pc = "Failed", !.notes = Append(@, handleError(message))]

\* a client that posts without testing the endpoint setting
sendCodeToAIUnchecked(f) ==
    [f EXCEPT !.webhookUrl = config.n8nWebhookUrl, !.timeout = config.requestTimeout,
              !.pc = "AwaitingFixResponse", !.posts = @ + 1]

\* extension.ts:121-142: configuration read, endpoint check, the POST is issued
sendCodeToAI(f) ==
    LET webhookUrl == config.n8nWebhookUrl
        timeout == config.requestTimeout
        g == [f EXCEPT !.webhookUrl = webhookUrl, !.timeout = timeout]
    IN  IF webhookUrl = ""
        THEN Fail(g, MsgNoUrl)
        ELSE [g EXCEPT !.pc = "AwaitingFixResponse", !.posts = @ + 1]

\* extension.ts:29-91: the command handler up to the point where it awaits the
\* HTTP response (no host event is handled in between)
fixCode(i, selectionOnly, hasEditor, selection) ==
    /\ flow[i].pc = "Idle"
    /\ \A j \in 1..(i - 1) : flow[j].pc # "Idle"   \* invocations are numbered in the order they start
    /\ LET f == [flow[i] EXCEPT !.selectionOnly = selectionOnly,
                                !.hasEditor = hasEditor,
                                !.invokedShowDiff = config.showDiffPreview]
           hasSelection == selection[1] # selection[2]
           e == [f EXCEPT !.language = languageId,
                          !.hasSelection = selectionOnly /\ hasSelection]
           codeToFix == IF selectionOnly THEN getText(document, selection) ELSE document
           rangeToReplace == IF selectionOnly THEN selection ELSE <<0, Len(document)>>
           c == [e EXCEPT !.codeToFix = codeToFix, !.rangeToReplace = rangeToReplace]
           Reject(g, level, text) ==
               [g EXCEPT !.pc = "Rejected", !.notes = Append(@, Note(level, text))]
       IN  flow' = [flow EXCEPT ![i] =
               IF ~hasEditor THEN Reject(f, "error", MsgNoEditor)
               ELSE IF ~isSupportedLanguage(languageId)
                    THEN Reject(e, "warning", MsgUnsupported(languageId))
               ELSE IF selectionOnly /\ ~hasSelection
                    THEN Reject(e, "error", MsgNoSelection)
               ELSE IF Trim(codeToFix) = <<>> THEN Reject(c, "error", MsgEmpty)
               ELSE sendCodeToAI(c)]
    /\ UNCHANGED <<document, languageId, config, untitledOriginal, untitledFixed, userEdits>>

\* a handler that does not test result.fixedCode
processResponseUnchecked(f, data) ==
    LET g == [f EXCEPT !.received = "body", !.result = data]
    IN  IF config.showDiffPreview
        THEN [g EXCEPT !.showDiff = "on", !.prompts = @ + 1, !.pc = "DecisionPending"]
        ELSE [g EXCEPT !.showDiff = "off", !.editRequests = @ + 1, !.pc = "Applying"]

\* extension.ts:93-110: what follows a response body
processResponse(f, data) ==
    LET g == [f EXCEPT !.received = "body", !.result = data]
    IN  IF data.fixedCode = <<>> THEN Fail(g, MsgNoFixedCode)
        ELSE IF config.showDiffPreview
             THEN [g EXCEPT !.showDiff = "on", !.prompts = @ + 1, !.pc = "DecisionPending"]
             ELSE [g EXCEPT !.showDiff = "off", !.editRequests = @ + 1, !.pc = "Applying"]

\* extension.ts:136-148: axios.post resolves with a body
httpResponse(i, data) ==
    /\ flow[i].pc = "AwaitingFixResponse"
    /\ flow' = [flow EXCEPT ![i] = processResponse(flow[i], data)]
    /\ UNCHANGED <<document, languageId, config, untitledOriginal, untitledFixed, userEdits>>

\* extension.ts:150-162: axios.post rejects
httpError(i, code) ==
    /\ flow[i].pc = "AwaitingFixResponse"
    /\ flow' = [flow EXCEPT ![i] =
           Fail([flow[i] EXCEPT !.received = "error", !.errorCode = code],
                mapTransportError(code, flow[i].webhookUrl, flow[i].timeout))]
    /\ UNCHANGED <<document, languageId, config, untitledOriginal, untitledFixed, userEdits>>

\* extension.ts:173-204: the user answers the modal prompt
FirstActions == {"Apply Changes", "Show Diff", "Cancel", "undefined"}

decide(f, action) ==
    LET g == [f EXCEPT !.action = action]
    IN  IF action = "Apply Changes"
        THEN [g EXCEPT !.editRequests = @ + 1, !.pc = "Applying"]
        ELSE IF action = "Show Diff" THEN [g EXCEPT !.pc = "InsertOriginal"]
        ELSE IF action = "Cancel"
             THEN [g EXCEPT !.pc = "Cancelled", !.notes = Append(@, Note("info", MsgCancelled))]
        ELSE [g EXCEPT !.pc = "Dismissed"]

showDiffAndApply(i, action) ==
    /\ flow[i].pc = "DecisionPending"
    /\ flow' = [flow EXCEPT ![i] = decide(flow[i], action)]
    /\ UNCHANGED <<document, languageId, config, untitledOriginal, untitledFixed, userEdits>>

\* extension.ts:224-234: applyEdit(originalEdit) on untitled:Original Code
insertOriginal(d, originalCode) == InsertAtStart(d, originalCode)

showDiffInsertOriginal(i) ==
    /\ flow[i].pc = "InsertOriginal"
    /\ untitledOriginal' = insertOriginal(untitledOriginal, flow[i].codeToFix)
    /\ flow' = [flow EXCEPT ![i].pc = "InsertFixed"]
    /\ UNCHANGED <<document, languageId, config, untitledFixed, userEdits>>

\* extension.ts:231-235: applyEdit(fixedEdit) on untitled:Fixed Code
insertFixed(d, fixedCode) == InsertAtStart(d, fixedCode)

showDiffInsertFixed(i) ==
    /\ flow[i].pc = "InsertFixed"
    /\ untitledFixed' = insertFixed(untitledFixed, flow[i].result.fixedCode)
    /\ flow' = [flow EXCEPT ![i].pc = "Render"]
    /\ UNCHANGED <<document, languageId, config, untitledOriginal, userEdits>>

\* extension.ts:238-243 and 190-194: vscode.diff shows the two untitled documents,
\* then the handler asks again
showDiffRender(i) ==
    /\ flow[i].pc = "Render"
    /\ flow' = [flow EXCEPT ![i].diffLeft = untitledOriginal,
                            ![i].diffRight = untitledFixed,
                            ![i].diffShown = TRUE,
                            ![i].prompts = @ + 1,
                            ![i].pc = "DecisionPending2"]
    /\ UNCHANGED <<document, languageId, config, untitledOriginal, untitledFixed, userEdits>>

\* extension.ts:190-199: the answer to "Apply the changes shown in diff?"
SecondActions == {"Apply", "Cancel", "undefined"}

\* a re-prompt that applies unless the prompt was dismissed
decideAgainUnlessDismissed(f, applyAction) ==
    LET g == [f EXCEPT !.applyAction = applyAction]
    IN  IF applyAction # "undefined"
        THEN [g EXCEPT !.editRequests = @ + 1, !.pc = "Applying"]
        ELSE [g EXCEPT !.pc = "Cancelled"]

decideAgain(f, applyAction) ==
    LET g == [f EXCEPT !.applyAction = applyAction]
    IN  IF applyAction = "Apply"
        THEN [g EXCEPT !.editRequests = @ + 1, !.pc = "Applying"]
        ELSE [g EXCEPT !.pc = "Cancelled"]

showDiffReprompt(i, applyAction) ==
    /\ flow[i].pc = "DecisionPending2"
    /\ flow' = [flow EXCEPT ![i] = decideAgain(flow[i], applyAction)]
    /\ UNCHANGED <<document, languageId, config, untitledOriginal, untitledFixed, userEdits>>

\* extension.ts:208-216 with 109, 184, 197: editor.edit resolves (true when the
\* host applied the edit, false when it did not) and the success notice follows
afterEdit(f, applied, replacedText) ==
    [f EXCEPT !.edits = IF applied THEN @ + 1 ELSE @,
              !.replaced = IF applied THEN replacedText ELSE @,
              !.notes = Append(@, showSuccessMessage(f.result.explanation)),
              !.pc = "Applied"]

applyFixedCode(i, applied) ==
    /\ flow[i].pc = "Applying"
    /\ document' = IF applied
                   THEN ReplaceRange(document, flow[i].rangeToReplace, flow[i].result.fixedCode)
                   ELSE document
    /\ flow' = [flow EXCEPT ![i] =
           afterEdit(flow[i], applied,
                     getText(document, validateRange(document, flow[i].rangeToReplace)))]
    /\ UNCHANGED <<languageId, config, untitledOriginal, untitledFixed, userEdits>>

\* the user types in the active document while a flow is suspended
userInsertLine(at, line) ==
    /\ userEdits < MaxUserEdits
    /\ userEdits' = userEdits + 1
    /\ document' = SubSeq(document, 1, at) \o <<line>> \o SubSeq(document, at + 1, Len(document))
    /\ UNCHANGED <<languageId, config, untitledOriginal, untitledFixed, flow>>

userDeleteLine(at) ==
    /\ userEdits < MaxUserEdits
    /\ userEdits' = userEdits + 1
    /\ at \in 1..Len(document)
    /\ document' = SubSeq(document, 1, at - 1) \o SubSeq(document, at + 1, Len(document))
    /\ UNCHANGED <<languageId, config, untitledOriginal, untitledFixed, flow>>

\* the user changes a setting of the selfHealing section
configChange(c) ==
    /\ c # config
    /\ config' = c
    /\ UNCHANGED <<document, languageId, untitledOriginal, untitledFixed, flow, userEdits>>

\* the user closes the two untitled documents of an earlier diff
closeDiffDocuments ==
    /\ untitledOriginal # <<>> \/ untitledFixed # <<>>
    /\ \A i \in Inv : flow[i].pc \notin {"InsertOriginal", "InsertFixed", "Render"}
    /\ untitledOriginal' = <<>>
    /\ untitledFixed' = <<>>
    /\ UNCHANGED <<document, languageId, config, flow, userEdits>>

Selections(d) == { <<s, e>> \in (0..Len(d)) \X (0..Len(d)) : s <= e }

\* the command is invoked with the editor state of that moment
invoke(i) ==
    \E selectionOnly \in BOOLEAN, hasEditor \in BOOLEAN :
        \E selection \in Selections(document) :
            fixCode(i, selectionOnly, hasEditor, selection)

respond(i) == \E data \in FixResponses : httpResponse(i, data)

refuse(i) == \E code \in TransportErrors : httpError(i, code)

answer(i) == \E action \in FirstActions : showDiffAndApply(i, action)

answerAgain(i) == \E applyAction \in SecondActions : showDiffReprompt(i, applyAction)

resolveEdit(i) == \E applied \in BOOLEAN : applyFixedCode(i, applied)

userTypes ==
    \/ \E at \in 0..Len(document), line \in SourceLines : userInsertLine(at, line)
    \/ \E at \in 1..Len(document) : userDeleteLine(at)

changeSettings == \E c \in Configs : configChange(c)

\* a session in which the command is invoked up to MaxInv times, the flows
\* overlapping freely, while the user changes settings and closes diff views
Next ==
    \/ \E i \in Inv : invoke(i)
    \/ \E i \in Inv : respond(i)
    \/ \E i \in Inv : refuse(i)
    \/ \E i \in Inv : answer(i)
    \/ \E i \in Inv : showDiffInsertOriginal(i)
    \/ \E i \in Inv : showDiffInsertFixed(i)
    \/ \E i \in Inv : showDiffRender(i)
    \/ \E i \in Inv : answerAgain(i)
    \/ \E i \in Inv : resolveEdit(i)
    \/ changeSettings
    \/ closeDiffDocuments

Spec == Init /\ [][Next]_vars

\* a session with one invocation during which the user also edits the document
NextEditing ==
    \/ invoke(1)
    \/ respond(1)
    \/ refuse(1)
    \/ answer(1)
    \/ showDiffInsertOriginal(1)
    \/ showDiffInsertFixed(1)
    \/ showDiffRender(1)
    \/ answerAgain(1)
    \/ resolveEdit(1)
    \/ userTypes
    \/ changeSettings
    \/ closeDiffDocuments

SpecEditing == Init /\ [][NextEditing]_vars

(***************************************************************************)
(* Properties                                                              *)
(***************************************************************************)

HasNote(f, n) == \E k \in 1..Len(f.notes) : f.notes[k] = n

IsBlankText(t) == \A k \in 1..Len(t) : t[k] = " "

NoEdit(f) == f.editRequests = 0 /\ f.edits = 0

OneProblemNote(f) == Len(f.notes) = 1 /\ f.notes[1].level \in {"error", "warning"}

\* C1: a POST is issued only by an invocation that had an editor, a supported
\* language, a non-empty selection when selection-only, and a text that is
\* not empty or whitespace-only; every other invocation ends rejected with one
\* message and no POST.
C1_PostOnlyAfterValidation ==
    \A i \in Inv :
        LET f == flow[i]
            valid == /\ f.hasEditor
                     /\ f.language \in getSupportedLanguages
                     /\ (f.selectionOnly => f.hasSelection)
                     /\ ~IsBlankText(f.codeToFix)
        IN  /\ f.posts > 0 => valid
            /\ (f.pc # "Idle" /\ ~valid) =>
                   f.pc = "Rejected" /\ f.posts = 0 /\ OneProblemNote(f) /\ NoEdit(f)

C1_Witness ==
    \E i \in Inv :
        /\ flow[i].pc = "Rejected" /\ flow[i].notes = <<Note("error", MsgEmpty)>>
        /\ flow[i].selectionOnly /\ flow[i].hasSelection
        /\ flow[i].codeToFix # <<>> /\ IsBlankText(flow[i].codeToFix)
        /\ flow[i].posts = 0

\* C2: an applied edit replaces the text that was sent as code.
C2_ReplacesSentText ==
    \A i \in Inv : flow[i].edits > 0 => flow[i].replaced = flow[i].codeToFix

\* C3: with the diff preview on, an edit is requested only after Apply at the
\* first prompt or at the re-prompt; Cancel at the first prompt ends the flow
\* Cancelled with the notice and no edit; Cancel at the re-prompt ends it with
\* no edit; the answering step leaves the document as it is.
C3_State ==
    \A i \in Inv :
        LET f == flow[i]
        IN  /\ (f.showDiff = "on" /\ ~NoEdit(f)) =>
                   \/ f.action = "Apply Changes"
                   \/ f.action = "Show Diff" /\ f.applyAction = "Apply"
            /\ f.action = "Cancel" =>
                   /\ f.pc = "Cancelled" /\ NoEdit(f)
                   /\ f.notes = <<Note("info", MsgCancelled)>>
            /\ (f.action = "Show Diff" /\ f.applyAction = "Cancel") =>
                   f.pc = "Cancelled" /\ NoEdit(f)

C3_Step ==
    \A i \in Inv :
        (flow[i].pc \in {"DecisionPending", "DecisionPending2"} /\ flow'[i] # flow[i])
            => document' = document

C3_MutationOnlyAfterApply == []C3_State /\ [][C3_Step]_vars

C3_Witness ==
    \E i \in Inv :
        /\ ~flow[i].selectionOnly /\ flow[i].showDiff = "on"
        /\ flow[i].action = "Cancel" /\ flow[i].pc = "Cancelled"
        /\ userEdits > 0

\* C4: a response body without fixedCode fails the flow with "No fixed code
\* received from AI", with no prompt and no edit.
C4_MissingFixedCodeFails ==
    \A i \in Inv :
        LET f == flow[i]
        IN  (f.received = "body" /\ f.result.fixedCode = <<>>) =>
                /\ f.pc = "Failed"
                /\ f.notes = <<Note("error", <<"Self-Healing Assistant: ">> \o MsgNoFixedCode)>>
                /\ f.prompts = 0
                /\ NoEdit(f)

C4_Witness ==
    \E i \in Inv :
        /\ flow[i].received = "body" /\ flow[i].result.fixedCode = <<>>
        /\ flow[i].pc = "Failed"
        /\ ~flow[i].invokedShowDiff /\ ~config.showDiffPreview

\* the message of the error a failed flow ended with
ErrorMessageOf(f) ==
    IF f.posts = 0 THEN MsgNoUrl
    ELSE IF f.received = "body" THEN MsgNoFixedCode
    ELSE IF f.errorCode = "ECONNREFUSED" THEN <<"Cannot connect to n8n at ", f.webhookUrl, ". Is n8n running?">>
    ELSE IF f.errorCode = "404" THEN MsgNotFound
    ELSE IF f.errorCode = "ECONNABORTED"
         THEN <<"Request timed out after ", ToString(f.timeout), "ms. Try increasing the timeout.">>
    ELSE <<f.errorCode>>

C5_State ==
    \A i \in Inv :
        LET f == flow[i]
        IN  /\ f.posts <= 1
            /\ f.pc \in {"Failed", "Rejected"} => OneProblemNote(f) /\ NoEdit(f)
            /\ f.pc = "Failed" =>
                   f.notes[1] = Note("error", <<"Self-Healing Assistant: ">> \o ErrorMessageOf(f))

C5_Step ==
    \A i \in Inv :
        (flow[i].pc \notin {"Failed", "Rejected"} /\ flow'[i].pc \in {"Failed", "Rejected"})
            => /\ document' = document
               /\ \A j \in Inv \ {i} : flow'[j] = flow[j]

\* C5: an invocation posts at most once; one that ends in an error has shown
\* exactly one notification, which carries the error's message, and has
\* requested and applied no edit; the step in which it fails changes neither
\* the document nor any other invocation.
C5_FailureIsLocal == []C5_State /\ [][C5_Step]_vars

C5_Witness ==
    \E i, j \in Inv :
        /\ flow[i].pc = "Failed" /\ flow[i].errorCode = "ECONNABORTED"
        /\ flow[j].pc = "Applied" /\ flow[j].edits = 1

\* C6: an invocation that passes validation while no endpoint URL is
\* configured fails with the configuration error, posts nothing and edits
\* nothing.
C6_NoEndpointNoCall ==
    \A i \in Inv :
        LET f == flow[i]
        IN  /\ (f.pc \notin {"Idle", "Rejected"} /\ f.webhookUrl = "") =>
                   /\ f.pc = "Failed"
                   /\ f.notes = <<Note("error", <<"Self-Healing Assistant: ">> \o MsgNoUrl)>>
                   /\ f.posts = 0
                   /\ NoEdit(f)
            /\ f.posts > 0 => f.webhookUrl # ""

C6_Witness ==
    \E i \in Inv :
        /\ flow[i].pc = "Failed" /\ flow[i].webhookUrl = "" /\ flow[i].selectionOnly
        /\ flow[i].codeToFix # <<>> /\ flow[i].posts = 0

\* C7: whether an invocation prompts or applies at once is decided by the
\* diff-preview setting in force when the command was invoked.
C7_ConfigSnapshot ==
    \A i \in Inv :
        flow[i].showDiff # "unread" => ((flow[i].showDiff = "on") <=> flow[i].invokedShowDiff)

\* C8: the diff that Show Diff renders has this invocation's original text on
\* one side and this invocation's fixedCode on the other.
C8_DiffShowsThisFlow ==
    \A i \in Inv :
        flow[i].diffShown =>
            /\ flow[i].diffLeft = flow[i].codeToFix
            /\ flow[i].diffRight = flow[i].result.fixedCode

\* C9: with the diff preview off, a flow that ends Applied has shown no
\* prompt, has replaced the computed range by fixedCode, and has then shown
\* the success notice with the explanation.
C9_DirectApply ==
    \A i \in Inv :
        LET f == flow[i]
        IN  (f.pc = "Applied" /\ f.showDiff = "off") =>
                /\ f.prompts = 0
                /\ f.edits = 1
                /\ f.notes = <<showSuccessMessage(f.result.explanation)>>

\* C10: the success notice is shown only by an invocation whose edit was
\* applied to the document.
C10_SuccessOnlyIfApplied ==
    \A i \in Inv :
        HasNote(flow[i], showSuccessMessage(flow[i].result.explanation)) => flow[i].edits > 0

====
